---------------------------- MODULE Spec2Model ----------------------------
(***************************************************************************)
(* Token issuing (scripts/generate_token.py) and the Lambda authorizer     *)
(* (src/authorizer/handler.py) of x-customer-id-routing.                   *)
(*                                                                         *)
(* Strings and byte strings are sequences of character codes (ASCII for    *)
(* everything the program itself writes).  base64, JSON text, str.split,   *)
(* str.replace and rstrip are computed character by character as the       *)
(* Python library computes them.  SHA-256 is not computed: hmac_sha256 is  *)
(* a deterministic keyed digest of DigestLen bytes that depends on every   *)
(* byte of the key and of the message.                                     *)
(***************************************************************************)
EXTENDS Integers, Sequences, FiniteSets, TLC

VARIABLES
    now,         \* time.time(), whole seconds
    jwt_secret,  \* os.environ JWT_SECRET as the authorizer sees it
    issued,      \* the last generate_jwt call: its arguments and what it returned
    pc,          \* "idle", or "done" once a call has returned
    op,          \* which call returned: "none" | "decode_jwt" | "lambda_handler"
    input,       \* the call's input: the token (decode_jwt) or the authorization header
    made,        \* how the input was built (a tag chosen by the caller)
    token,       \* lambda_handler's local `token` (decode_jwt: its argument)
    payload,     \* what decode_jwt returned (JNone for None)
    status,      \* "Valid" | "SignatureMismatch" | "MalformedToken" | "none"
    result,      \* what lambda_handler returned
    cause        \* the branch lambda_handler returned from

vars == <<now, jwt_secret, issued, pc, op, input, made, token, payload, status, result, cause>>

---------------------------------------------------------------------------
(* Bounds of the model *)

MaxClock == 1      \* the clock runs over 0..MaxClock
MaxTick == 1       \* seconds the clock may advance between two reads in one call

(* Program constants *)

DOT == 46          \* '.'
PAD == 61          \* '='
EXPIRY == 3600     \* 1 hour expiry
DigestLen == 32    \* hashlib.sha256().digest_size

---------------------------------------------------------------------------
(* String literals of the program *)

K_customer_id   == <<99, 117, 115, 116, 111, 109, 101, 114, 95, 105, 100>>            \* "customer_id"
K_customer_name == <<99, 117, 115, 116, 111, 109, 101, 114, 95, 110, 97, 109, 101>>   \* "customer_name"
K_tenant_id     == <<116, 101, 110, 97, 110, 116, 95, 105, 100>>                      \* "tenant_id"
K_sub           == <<115, 117, 98>>                                                   \* "sub"
K_name          == <<110, 97, 109, 101>>                                              \* "name"
K_iat           == <<105, 97, 116>>                                                   \* "iat"
K_exp           == <<101, 120, 112>>                                                  \* "exp"
K_iss           == <<105, 115, 115>>                                                  \* "iss"
K_alg           == <<97, 108, 103>>                                                   \* "alg"
K_typ           == <<116, 121, 112>>                                                  \* "typ"
S_HS256         == <<72, 83, 50, 53, 54>>                                             \* "HS256"
S_JWT           == <<74, 87, 84>>                                                     \* "JWT"
S_issuer        == <<120, 45, 99, 117, 115, 116, 111, 109, 101, 114, 45, 105, 100, 45, 100, 101, 109, 111>>  \* "x-customer-id-demo"
DEFAULT_SECRET  == <<121, 111, 117, 114, 45, 106, 119, 116, 45, 115, 101, 99, 114, 101, 116, 45, 99, 104, 97, 110, 103, 101, 45, 109, 101>>  \* "your-jwt-secret-change-me"
S_Bearer        == <<66, 101, 97, 114, 101, 114, 32>>                                 \* "Bearer "
S_bearer        == <<98, 101, 97, 114, 101, 114, 32>>                                 \* "bearer "

---------------------------------------------------------------------------
(* JSON values: Python's dict / str / int / None *)

JNone    == [t |-> "none", s |-> <<>>, n |-> 0, d |-> <<>>]
JStr(s)  == [t |-> "str",  s |-> s,    n |-> 0, d |-> <<>>]
JInt(n)  == [t |-> "int",  s |-> <<>>, n |-> n, d |-> <<>>]
JDict(d) == [t |-> "dict", s |-> <<>>, n |-> 0, d |-> d]     \* d: <<[k, v], ...>> in insertion order

\* bool(v)
Truthy(v) ==
    CASE v.t = "str"  -> v.s # <<>>
      [] v.t = "int"  -> v.n # 0
      [] v.t = "dict" -> v.d # <<>>
      [] OTHER        -> FALSE

\* a or b
Or(a, b) == IF Truthy(a) THEN a ELSE b

\* dict.get(key): the value, or None
Get(v, key) ==
    IF \E i \in 1..Len(v.d) : v.d[i].k = key
    THEN v.d[CHOOSE i \in 1..Len(v.d) : v.d[i].k = key].v
    ELSE JNone

\* the sequence f as a tuple, each element computed once
Tuple(f) == f \o <<>>

\* d[key] = val: a key already present keeps its place
DictSet(d, key, val) ==
    IF \E i \in 1..Len(d) : d[i].k = key
    THEN Tuple([i \in 1..Len(d) |-> IF d[i].k = key THEN [k |-> key, v |-> val] ELSE d[i]])
    ELSE Append(d, [k |-> key, v |-> val])

---------------------------------------------------------------------------
(* str helpers *)

\* s.rstrip(c)
RECURSIVE Rstrip(_, _)
Rstrip(s, c) ==
    IF Len(s) > 0 /\ s[Len(s)] = c THEN Rstrip(SubSeq(s, 1, Len(s) - 1), c) ELSE s

\* c * n
Repeat(c, n) == Tuple([i \in 1..n |-> c])

\* s.split(sep) for a one-character separator: one part more than there are
\* separators, the k-th part lying between the (k-1)-th and the k-th separator
Split(s, sep) ==
    LET at     == {i \in 1..Len(s) : s[i] = sep}
        nth(k) == IF k = 0 THEN 0
                  ELSE IF k > Cardinality(at) THEN Len(s) + 1
                  ELSE CHOOSE i \in at : Cardinality({j \in at : j < i}) = k - 1
    IN Tuple([k \in 1..(Cardinality(at) + 1) |-> SubSeq(s, nth(k - 1) + 1, nth(k) - 1)])

StartsWithAt(s, i, old) ==
    /\ i + Len(old) - 1 <= Len(s)
    /\ \A j \in 1..Len(old) : s[i + j - 1] = old[j]

\* s.replace(old, ''): every non-overlapping occurrence, left to right; from
\* position i on, the text up to the next occurrence is kept and the search goes on
\* behind that occurrence
RECURSIVE RemoveFrom(_, _, _)
RemoveFrom(s, old, i) ==
    LET found == {j \in i..Len(s) : StartsWithAt(s, j, old)}
    IN IF found = {} THEN SubSeq(s, i, Len(s))
       ELSE LET j == CHOOSE x \in found : \A y \in found : x <= y
            IN SubSeq(s, i, j - 1) \o RemoveFrom(s, old, j + Len(old))

Remove(s, old) == RemoveFrom(s, old, 1)

IsAscii(s) == \A i \in 1..Len(s) : s[i] < 128

---------------------------------------------------------------------------
(* base64 *)

\* the URL-safe alphabet: A-Z a-z 0-9 - _
B64Char(v) ==
    IF v < 26 THEN 65 + v
    ELSE IF v < 52 THEN 97 + (v - 26)
    ELSE IF v < 62 THEN 48 + (v - 52)
    ELSE IF v = 62 THEN 45 ELSE 95

\* the value of a character, -1 for a character outside the alphabet.
\* urlsafe_b64decode maps '-' to '+' and '_' to '/' and leaves '+' and '/' alone, so
\* both spellings are read.
B64Value(c) ==
    IF c >= 65 /\ c <= 90 THEN c - 65
    ELSE IF c >= 97 /\ c <= 122 THEN c - 97 + 26
    ELSE IF c >= 48 /\ c <= 57 THEN c - 48 + 52
    ELSE IF c = 45 \/ c = 43 THEN 62
    ELSE IF c = 95 \/ c = 47 THEN 63
    ELSE -1

\* base64.urlsafe_b64encode(b): groups of three bytes, padded with '='
urlsafe_b64encode(b) ==
    LET n == Len(b)
        groups == (n + 2) \div 3
        at(j) == IF j <= n THEN b[j] ELSE 0
        ch(i) ==
            LET g  == (i - 1) \div 4
                p  == (i - 1) % 4
                b0 == at(3 * g + 1)
                b1 == at(3 * g + 2)
                b2 == at(3 * g + 3)
            IN CASE p = 0 -> B64Char(b0 \div 4)
                 [] p = 1 -> B64Char((b0 % 4) * 16 + b1 \div 16)
                 [] p = 2 -> IF 3 * g + 2 > n THEN PAD
                             ELSE B64Char((b1 % 16) * 4 + b2 \div 64)
                 [] OTHER -> IF 3 * g + 3 > n THEN PAD ELSE B64Char(b2 % 64)
    IN Tuple([i \in 1..(4 * groups) |-> ch(i)])

\* the values of the alphabet characters among s[a..b], in order
RECURSIVE B64Values(_, _, _)
B64Values(s, a, b) ==
    IF a > b THEN <<>>
    ELSE IF a = b
    THEN (IF B64Value(s[a]) >= 0 THEN <<B64Value(s[a])>> ELSE <<>>)
    ELSE LET mid == (a + b) \div 2
         IN B64Values(s, a, mid) \o B64Values(s, mid + 1, b)

\* binascii.a2b_base64, not strict.  The loop reads s once: a character outside the
\* alphabet is skipped; an alphabet character fills the current group of four
\* (quad_pos) and resets pads; a '=' counts in pads once the group holds two
\* characters, and when quad_pos + pads reaches 4 the data ends there and the rest
\* is ignored.  Reaching the end of s inside a group is an error.
a2b_base64(s) ==
    LET n        == Len(s)
        value    == Tuple([j \in 1..n |-> B64Value(s[j])])
        IsData(i) == value[i] >= 0
        quad(i)  == Cardinality({j \in 1..(i - 1) : IsData(j)}) % 4
        \* the '=' up to i since the last alphabet character
        pads(i)  == Cardinality({p \in 1..i : /\ s[p] = PAD
                                              /\ \A j \in (p + 1)..(i - 1) : ~IsData(j)})
        ends     == {i \in 1..n : /\ s[i] = PAD
                                    /\ LET q == quad(i) IN q >= 2 /\ q + pads(i) >= 4}
        stop     == IF ends = {} THEN n + 1
                    ELSE CHOOSE i \in ends : \A k \in ends : i <= k
        v        == IF \A j \in 1..(stop - 1) : IsData(j)
                    THEN SubSeq(value, 1, stop - 1)
                    ELSE B64Values(s, 1, stop - 1)
        rest     == Len(v) % 4
        nbytes   == 3 * (Len(v) \div 4) + (IF rest = 0 THEN 0 ELSE rest - 1)
        byte(k)  == LET g == (k - 1) \div 3
                        r == (k - 1) % 3
                    IN CASE r = 0 -> v[4 * g + 1] * 4 + v[4 * g + 2] \div 16
                         [] r = 1 -> (v[4 * g + 2] % 16) * 16 + v[4 * g + 3] \div 4
                         [] OTHER -> (v[4 * g + 3] % 4) * 64 + v[4 * g + 4]
    IN IF ends = {} /\ rest # 0
       THEN [ok |-> FALSE, bytes |-> <<>>]
       ELSE [ok |-> TRUE, bytes |-> Tuple([k \in 1..nbytes |-> byte(k)])]

\* base64.urlsafe_b64decode(s) of a str: s must be ASCII
urlsafe_b64decode(s) ==
    IF ~IsAscii(s) THEN [ok |-> FALSE, bytes |-> <<>>]
    ELSE a2b_base64(s)

---------------------------------------------------------------------------
(* JSON text.  The values are flat objects of strings and integers, strings and *)
(* integers: what generate_jwt writes and what the authorizer reads.  Escapes,  *)
(* floats, arrays, literals and nested objects are outside the parser and are   *)
(* never among the inputs.                                                       *)

RECURSIVE Digits(_)
Digits(n) == IF n < 10 THEN <<48 + n>> ELSE Digits(n \div 10) \o <<48 + (n % 10)>>

\* str(n)
IntToStr(n) == IF n < 0 THEN <<45>> \o Digits(-n) ELSE Digits(n)

Quoted(s) == <<34>> \o s \o <<34>>

DumpValue(v) == IF v.t = "str" THEN Quoted(v.s) ELSE IntToStr(v.n)

RECURSIVE DumpItems(_, _)
DumpItems(d, i) ==
    IF i > Len(d) THEN <<>>
    ELSE (IF i > 1 THEN <<44, 32>> ELSE <<>>)
         \o Quoted(d[i].k) \o <<58, 32>> \o DumpValue(d[i].v)
         \o DumpItems(d, i + 1)

\* json.dumps(obj) of a dict: {"k": v, "k": v}
json_dumps(d) == <<123>> \o DumpItems(d, 1) \o <<125>>

IsWs(c) == c = 32 \/ c = 9 \/ c = 10 \/ c = 13
IsDigit(c) == c >= 48 /\ c <= 57

Fail == [ok |-> FALSE, pos |-> 0, val |-> JNone]

RECURSIVE SkipWs(_, _)
SkipWs(b, i) == IF i <= Len(b) /\ IsWs(b[i]) THEN SkipWs(b, i + 1) ELSE i

\* the closing quote of the string whose first character is at i; 0 when the
\* string does not end, or holds a control character or a backslash
RECURSIVE StringEnd(_, _)
StringEnd(b, i) ==
    IF i > Len(b) THEN 0
    ELSE IF b[i] = 34 THEN i
    ELSE IF b[i] < 32 \/ b[i] = 92 THEN 0
    ELSE StringEnd(b, i + 1)

\* b[i] is the opening quote
ParseString(b, i) ==
    LET e == StringEnd(b, i + 1)
    IN IF e = 0 THEN Fail
       ELSE [ok |-> TRUE, pos |-> e + 1, val |-> JStr(SubSeq(b, i + 1, e - 1))]

RECURSIVE DigitsEnd(_, _)
DigitsEnd(b, i) == IF i <= Len(b) /\ IsDigit(b[i]) THEN DigitsEnd(b, i + 1) ELSE i

RECURSIVE DigitsValue(_, _, _, _)
DigitsValue(b, i, e, acc) ==
    IF i >= e THEN acc ELSE DigitsValue(b, i + 1, e, acc * 10 + (b[i] - 48))

\* -? (0 | [1-9][0-9]*), not followed by a fraction or an exponent
ParseInt(b, i) ==
    LET neg == i <= Len(b) /\ b[i] = 45
        f   == IF neg THEN i + 1 ELSE i
        e   == IF f <= Len(b) /\ b[f] = 48 THEN f + 1 ELSE DigitsEnd(b, f)
    IN IF e = f THEN Fail
       ELSE IF e <= Len(b) /\ (b[e] = 46 \/ b[e] = 101 \/ b[e] = 69) THEN Fail
       ELSE LET n == DigitsValue(b, f, e, 0)
            IN [ok |-> TRUE, pos |-> e, val |-> JInt(IF neg THEN -n ELSE n)]

\* a member's value
ParseScalar(b, i) ==
    IF i > Len(b) THEN Fail
    ELSE IF b[i] = 34 THEN ParseString(b, i)
    ELSE IF b[i] = 45 \/ IsDigit(b[i]) THEN ParseInt(b, i)
    ELSE Fail

\* the members of an object from the key at i on, acc holding those read so far
RECURSIVE ParseMembers(_, _, _)
ParseMembers(b, i, acc) ==
    IF i > Len(b) \/ b[i] # 34 THEN Fail
    ELSE LET key == ParseString(b, i)
             c   == SkipWs(b, key.pos)
         IN IF ~key.ok \/ c > Len(b) \/ b[c] # 58 THEN Fail
            ELSE LET v == ParseScalar(b, SkipWs(b, c + 1))
                     a == SkipWs(b, v.pos)
                 IN IF ~v.ok \/ a > Len(b) THEN Fail
                    ELSE LET acc2 == DictSet(acc, key.val.s, v.val)
                         IN IF b[a] = 125
                            THEN [ok |-> TRUE, pos |-> a + 1, val |-> JDict(acc2)]
                            ELSE IF b[a] = 44
                            THEN ParseMembers(b, SkipWs(b, a + 1), acc2)
                            ELSE Fail

\* b[i] is the opening brace
ParseObject(b, i) ==
    LET f == SkipWs(b, i + 1)
    IN IF f <= Len(b) /\ b[f] = 125
       THEN [ok |-> TRUE, pos |-> f + 1, val |-> JDict(<<>>)]
       ELSE ParseMembers(b, f, <<>>)

\* json.loads(b) of bytes: UTF-8 text holding one value and nothing else.
\* ok = FALSE stands for the exception (UnicodeDecodeError, JSONDecodeError).
json_loads(b) ==
    IF \E i \in 1..Len(b) : b[i] >= 128 THEN Fail
    ELSE LET i == SkipWs(b, 1)
             v == IF i > Len(b) THEN Fail
                  ELSE IF b[i] = 123 THEN ParseObject(b, i)
                  ELSE ParseScalar(b, i)
         IN IF ~v.ok THEN Fail
            ELSE IF SkipWs(b, v.pos) <= Len(b) THEN Fail
            ELSE v

---------------------------------------------------------------------------
(* HMAC *)

\* two polynomial sums over m[a..b], of (m[i] + 1) * 131^(b - i) modulo 46337 and of
\* (m[i] + 1) * 137^(b - i) modulo 46327, with the two powers 131^(b-a+1), 137^(b-a+1)
RECURSIVE Poly(_, _, _)
Poly(m, a, b) ==
    IF a = b THEN <<m[a] + 1, 131, m[a] + 1, 137>>
    ELSE LET mid == (a + b) \div 2
             l   == Poly(m, a, mid)
             r   == Poly(m, mid + 1, b)
         IN << (l[1] * r[2] + r[1]) % 46337, (l[2] * r[2]) % 46337,
               (l[3] * r[4] + r[3]) % 46327, (l[4] * r[4]) % 46327 >>

\* hmac.new(key, msg, hashlib.sha256).digest(): DigestLen bytes, a function of the
\* key and of every byte of the message
hmac_sha256(key, msg) ==
    LET m  == key \o <<256>> \o msg
        p  == Poly(m, 1, Len(m))
        h1 == (7 * p[2] + p[1]) % 46337
        h2 == (11 * p[4] + p[3]) % 46327
    IN Tuple([i \in 1..DigestLen |->
            ((h1 * (2 * i + 1) + h2 * (i + 3)) \div 16 + h1 \div 256 + i * h2) % 256])

\* compare_digest comparing the lengths only
compare_digest_len(a, b) == [ok |-> IsAscii(a) /\ IsAscii(b), eq |-> Len(a) = Len(b)]

\* hmac.compare_digest(a, b) of two str: TypeError for a non-ASCII str
compare_digest(a, b) == [ok |-> IsAscii(a) /\ IsAscii(b), eq |-> a = b]

\* base64.urlsafe_b64encode(x).rstrip(b'=').decode()
b64_nopad(x) == Rstrip(urlsafe_b64encode(x), PAD)

---------------------------------------------------------------------------
(* scripts/generate_token.py *)

\* lines 40-46: the signature over header_b64.payload_b64, and the token
\* generate_jwt_sign refusing an empty secret
generate_jwt_sign_checked(claims, message, secret) ==
    IF secret = <<>>
    THEN [raised |-> "InvalidKey", claims |-> JNone, token |-> <<>>]
    ELSE [raised |-> "none",
          claims |-> JDict(claims),
          token  |-> message \o <<DOT>> \o b64_nopad(hmac_sha256(secret, message))]

generate_jwt_sign(claims, message, secret) ==
    [raised |-> "none",
     claims |-> JDict(claims),
     token  |-> message \o <<DOT>> \o b64_nopad(hmac_sha256(secret, message))]

\* lines 36-38: header and payload as JSON, base64 without padding
generate_jwt_encode(header, claims, secret) ==
    generate_jwt_sign(claims,
        b64_nopad(json_dumps(header)) \o <<DOT>> \o b64_nopad(json_dumps(claims)),
        secret)

\* generate_jwt(customer_id, customer_name, secret); t1 and t2 are the two values
\* time.time() returns, for iat and for exp.  raised names the exception the call
\* ends with: the code has no raise and none of its library calls fails on a str.
generate_jwt(customer_id, customer_name, secret, t1, t2) ==
    generate_jwt_encode(
        << [k |-> K_alg, v |-> JStr(S_HS256)],
           [k |-> K_typ, v |-> JStr(S_JWT)] >>,
        << [k |-> K_customer_id,   v |-> JStr(customer_id)],
           [k |-> K_customer_name, v |-> Or(customer_name, JStr(customer_id))],
           [k |-> K_sub,           v |-> JStr(customer_id)],
           [k |-> K_iat,           v |-> JInt(t1)],
           [k |-> K_exp,           v |-> JInt(t2 + EXPIRY)],
           [k |-> K_iss,           v |-> JStr(S_issuer)] >>,
        secret)

---------------------------------------------------------------------------
(* src/authorizer/handler.py *)

\* return None
Malformed == [payload |-> JNone, status |-> "MalformedToken"]

\* decode_jwt_compare rejecting a token whose signature does not match
decode_jwt_compare_strict(loaded, cmp) ==
    IF ~cmp.ok \/ ~cmp.eq THEN Malformed
    ELSE [payload |-> loaded, status |-> "Valid"]

\* lines 107-114: the signatures are compared and the payload is returned whether
\* they match or not; a TypeError of compare_digest ends in return None
decode_jwt_compare(loaded, cmp) ==
    IF ~cmp.ok THEN Malformed
    ELSE [payload |-> loaded, status |-> IF cmp.eq THEN "Valid" ELSE "SignatureMismatch"]

\* decode_jwt_verify going on with empty claims when the payload is not JSON
decode_jwt_verify_lenient(header_b64, payload_b64, signature_b64, secret, loaded) ==
    decode_jwt_compare(IF loaded.ok THEN loaded.val ELSE JDict(<<>>),
        compare_digest(signature_b64,
            b64_nopad(hmac_sha256(secret, header_b64 \o <<DOT>> \o payload_b64))))

\* lines 98-105: the expected signature is computed over header_b64 and payload_b64,
\* which by now carries the padding added for the decoding
decode_jwt_verify(header_b64, payload_b64, signature_b64, secret, loaded) ==
    IF ~loaded.ok THEN Malformed
    ELSE decode_jwt_compare(loaded.val,
            compare_digest(signature_b64,
                b64_nopad(hmac_sha256(secret, header_b64 \o <<DOT>> \o payload_b64))))

\* lines 95-96: payload_json = base64.urlsafe_b64decode(payload_b64);
\* payload = json.loads(payload_json)
decode_jwt_payload(header_b64, payload_b64, signature_b64, secret, payload_json) ==
    IF ~payload_json.ok THEN Malformed
    ELSE decode_jwt_verify(header_b64, payload_b64, signature_b64, secret,
                           json_loads(payload_json.bytes))

\* lines 91-94: header_b64, payload_b64, signature_b64 = parts;
\* payload_b64 += '=' * (4 - len(payload_b64) % 4)
decode_jwt_padded(header_b64, payload_b64, signature_b64, secret) ==
    decode_jwt_payload(header_b64, payload_b64, signature_b64, secret,
                       urlsafe_b64decode(payload_b64))

\* decode_jwt_parts taking the first three of three or more parts
decode_jwt_parts_atleast(parts, secret) ==
    IF Len(parts) < 3 THEN Malformed
    ELSE decode_jwt_padded(parts[1], parts[2] \o Repeat(PAD, 4 - (Len(parts[2]) % 4)),
                           parts[3], secret)

\* lines 86-89: parts = token.split('.'); anything but three parts is refused
decode_jwt_parts(parts, secret) ==
    IF Len(parts) # 3 THEN Malformed
    ELSE decode_jwt_padded(parts[1], parts[2] \o Repeat(PAD, 4 - (Len(parts[2]) % 4)),
                           parts[3], secret)

\* decode_jwt(token) with JWT_SECRET = secret.  status is "MalformedToken" when the
\* function returns None; otherwise it tells whether "Invalid JWT signature" was
\* printed.  Every exception is caught inside and ends in return None.
decode_jwt(tok, secret) == decode_jwt_parts(Split(tok, DOT), secret)

\* {'isAuthorized': False}
deny_response == [isAuthorized |-> FALSE]

\* Returned telling the caller which check failed
Returned_with_cause(res, why, tok, dec) ==
    [result |-> IF res.isAuthorized THEN res
                ELSE [isAuthorized |-> FALSE, context |-> [error |-> why]],
     cause |-> why, token |-> tok, payload |-> dec.payload, status |-> dec.status]

\* what one return statement of lambda_handler leaves behind: the response, the
\* branch that returned, the token extracted and what decode_jwt gave
Returned(res, why, tok, dec) ==
    [result |-> res, cause |-> why, token |-> tok,
     payload |-> dec.payload, status |-> dec.status]

NotDecoded == [payload |-> JNone, status |-> "none"]

\* ResolveCustomerId looking at sub first
ResolveCustomerId_sub_first(p) ==
    Or(Or(Get(p, K_sub), Get(p, K_tenant_id)), Get(p, K_customer_id))

\* customer_id = payload.get('customer_id') or payload.get('tenant_id') or payload.get('sub')
ResolveCustomerId(p) ==
    Or(Or(Get(p, K_customer_id), Get(p, K_tenant_id)), Get(p, K_sub))

\* customer_name = payload.get('customer_name') or payload.get('name') or customer_id
ResolveCustomerName(p, customer_id) ==
    Or(Or(Get(p, K_customer_name), Get(p, K_name)), customer_id)

\* token = auth_header.replace('Bearer ', '').replace('bearer ', '')
ExtractToken(auth_header) == Remove(Remove(auth_header, S_Bearer), S_bearer)

\* lines 48-63: deny without a customer id, else the authorized response
lambda_handler_respond(tok, dec, customer_id) ==
    IF ~Truthy(customer_id)
    THEN Returned(deny_response, "no_customer_id", tok, dec)
    ELSE Returned([isAuthorized |-> TRUE,
                   context |-> [customerId   |-> customer_id,
                                customerName |-> ResolveCustomerName(dec.payload, customer_id),
                                tokenPayload |-> json_dumps(dec.payload.d)]],
                  "authorized", tok, dec)

\* lines 40-46: deny when decode_jwt returned nothing (or anything falsy).  A
\* payload that is not a dict has no .get: the AttributeError is caught by the
\* handler's own except, which denies.
lambda_handler_payload(tok, dec) ==
    IF ~Truthy(dec.payload)
    THEN Returned(deny_response, "decode_failed", tok, dec)
    ELSE IF dec.payload.t # "dict"
    THEN Returned(deny_response, "exception", tok, dec)
    ELSE lambda_handler_respond(tok, dec, ResolveCustomerId(dec.payload))

\* lines 33-38: deny an empty token, else decode it
lambda_handler_token(tok, secret) ==
    IF tok = <<>>
    THEN Returned(deny_response, "no_token", tok, NotDecoded)
    ELSE lambda_handler_payload(tok, decode_jwt(tok, secret))

\* lambda_handler(event, context), auth_header being
\* event.get('headers', {}).get('authorization', '')
lambda_handler(auth_header, secret) ==
    IF auth_header = <<>>
    THEN Returned(deny_response, "no_header", <<>>, NotDecoded)
    ELSE lambda_handler_token(ExtractToken(auth_header), secret)

---------------------------------------------------------------------------
(* The callers: what is passed to generate_jwt, decode_jwt and lambda_handler *)

CustomerIds   == {<<>>, <<97>>}                             \* "", "a"
CustomerNames == {JNone, JStr(<<78, 109>>)}                 \* no --name, --name Nm
Secrets       == {<<>>, <<107>>}                            \* --secret "", --secret k
EnvSecrets    == {<<107>>, DEFAULT_SECRET}                  \* JWT_SECRET=k, JWT_SECRET unset

\* the characters written over a signature character: '.', 'A', 'B', U+00E9
TamperBytes == {DOT, 65, 66, 233}

\* the authorization schemes put before a token: none, and three spellings of Bearer
S_BEARER == <<66, 69, 65, 82, 69, 82, 32>>                  \* "BEARER "
Schemes  == {<<>>, S_Bearer, S_bearer, S_BEARER}

Built(kind, pos, byte, prefix, base, text) ==
    [kind |-> kind, pos |-> pos, byte |-> byte, prefix |-> prefix, base |-> base,
     text |-> text]

\* the k-th segment of a token of three segments
Segment(tok, k) == Split(tok, DOT)[k]

\* the signature the decoder expects for header_b64.payload_b64 under secret
SignedForDecoder(header_b64, payload_b64, secret) ==
    b64_nopad(hmac_sha256(secret,
        header_b64 \o <<DOT>> \o payload_b64 \o Repeat(PAD, 4 - (Len(payload_b64) % 4))))

Opt(key, vals) == {<<>>} \cup {<<[k |-> key, v |-> JStr(x)]>> : x \in vals}

\* claim sets with each of customer_id, tenant_id, sub absent, empty or set
IdClaims ==
    {c \o t \o u : c \in Opt(K_customer_id, {<<>>, <<99>>}),
                   t \in Opt(K_tenant_id, {<<>>, <<120>>}),
                   u \in Opt(K_sub, {<<>>, <<121>>})}

\* display names, and an exp that lies in the past from the first second on
NamedClaims ==
    {i \o e : i \in IdClaims,
              e \in { << [k |-> K_name, v |-> JStr(<<78, 109>>)],
                         [k |-> K_exp,  v |-> JInt(0)] >>,
                      << [k |-> K_customer_name, v |-> JStr(<<67, 110>>)],
                         [k |-> K_name, v |-> JStr(<<78, 109>>)] >> }}

\* payload segments that are not the base64 of a JSON object with members
RawSegments ==
    { <<>>,                                      \* ''
      <<97>>,                                    \* 'a': one character too many
      <<97, 61, 98>>,                            \* 'a=b': incorrect padding
      <<33, 33, 33, 33>>,                        \* '!!!!': no data at all
      <<95, 95, 95, 95>>,                        \* '____': bytes ff ff ff
      <<233, 101, 51, 48>>,                      \* U+00E9 'e30': not ASCII
      b64_nopad(<<120, 121, 122>>),              \* xyz
      b64_nopad(<<123, 34, 115, 117, 98, 34, 58, 32, 34, 121, 34>>),      \* {"sub": "y"
      b64_nopad(<<123, 34, 115, 117, 98, 34, 58, 32, 34, 121, 34, 125, 120>>),  \* {"sub": "y"}x
      b64_nopad(<<123, 115, 117, 98, 58, 32, 49, 125>>),                  \* {sub: 1}
      b64_nopad(<<48, 53>>),                     \* 05
      b64_nopad(<<53>>),                         \* 5
      b64_nopad(<<48>>),                         \* 0
      b64_nopad(<<34, 97, 34>>),                 \* "a"
      b64_nopad(<<123, 125>>),                   \* {}
      <<101, 51, 48, 61, 101, 51, 48>> }         \* 'e30=e30': {} and an ignored rest

ClaimSegments(claims) == {b64_nopad(json_dumps(d)) : d \in claims}

\* tokens made without generate_jwt: signed as the decoder expects, with a wrong
\* signature, with an empty header and signature, with two and with four segments
CraftedTokens(secret) ==
    {<<104>> \o <<DOT>> \o p \o <<DOT>> \o SignedForDecoder(<<104>>, p, secret) :
        p \in ClaimSegments(IdClaims \cup NamedClaims) \cup RawSegments}
    \cup {<<104>> \o <<DOT>> \o p \o <<DOT>> \o <<115>> : p \in ClaimSegments(NamedClaims)}
    \cup {<<DOT>> \o p \o <<DOT>> : p \in ClaimSegments(IdClaims) \cup RawSegments}
    \cup { <<104, 46, 101, 51, 48>>,                     \* 'h.e30'
           <<104, 46, 101, 51, 48, 46, 115, 46, 120>>,   \* 'h.e30.s.x'
           <<120>> }                                     \* 'x'

\* what decode_jwt is called with: the issued token, as it is or with one
\* character of its signature replaced by another
TamperedTokens(kind, t, siglen) ==
    {Built(kind, pos, byte, <<>>, t, [t EXCEPT ![Len(t) - siglen + pos] = byte]) :
        pos \in 1..siglen, byte \in TamperBytes}

\* the issued header and payload under the signature the decoder expects
Resigned(h, p, secret) == h \o <<DOT>> \o p \o <<DOT>> \o SignedForDecoder(h, p, secret)

DecodeInputsOf(t, r) ==
    {Built("issued", 0, 0, <<>>, t, t), Built("resigned", 0, 0, <<>>, r, r)}
    \cup TamperedTokens("tampered", t, Len(Segment(t, 3)))
    \cup TamperedTokens("tampered_resigned", r, Len(Segment(r, 3)))

DecodeInputs ==
    IF ~issued.called \/ issued.raised # "none" THEN {}
    ELSE DecodeInputsOf(issued.token,
             Resigned(Segment(issued.token, 1), Segment(issued.token, 2), jwt_secret))

\* authorization headers that carry the issued token
HeadersWith(t, h, p, g, secret) ==
    {Built("scheme", 0, 0, x, t, x \o t) : x \in Schemes}
    \cup {Built("embedded", 0, 0, <<>>, t, h \o <<DOT>> \o S_Bearer \o p \o <<DOT>> \o g)}
    \cup {Built("resigned", 0, 0, <<>>, t, Resigned(h, p, secret))}

IssuedHeaders ==
    IF ~issued.called \/ issued.raised # "none" THEN {}
    ELSE HeadersWith(issued.token, Segment(issued.token, 1), Segment(issued.token, 2),
                     Segment(issued.token, 3), jwt_secret)

\* authorization headers that carry no token, or a token made without generate_jwt
CraftedHeaders ==
    {Built("absent", 0, 0, <<>>, <<>>, <<>>)}
    \cup {Built("scheme", 0, 0, x, <<>>, x) : x \in Schemes \ {<<>>}}
    \cup {Built("crafted", 0, 0, <<>>, t, t) : t \in CraftedTokens(jwt_secret)}

---------------------------------------------------------------------------
(* The state machine *)

NotIssued ==
    [called |-> FALSE, customer_id |-> <<>>, customer_name |-> JNone, secret |-> <<>>,
     raised |-> "none", claims |-> JNone, token |-> <<>>]

Issued(customer_id, customer_name, secret, r) ==
    [called |-> TRUE, customer_id |-> customer_id, customer_name |-> customer_name,
     secret |-> secret, raised |-> r.raised, claims |-> r.claims, token |-> r.token]

NotBuilt == Built("none", 0, 0, <<>>, <<>>, <<>>)

NotReturned == [isAuthorized |-> FALSE, pending |-> TRUE]

Init ==
    /\ now = 0
    /\ jwt_secret \in EnvSecrets
    /\ issued = NotIssued
    /\ pc = "idle"
    /\ op = "none"
    /\ made = NotBuilt
    /\ input = <<>>
    /\ token = <<>>
    /\ payload = JNone
    /\ status = "none"
    /\ result = NotReturned
    /\ cause = "none"

\* the wall clock advances
Tick ==
    /\ pc = "idle"
    /\ now < MaxClock
    /\ now' = now + 1
    /\ UNCHANGED <<jwt_secret, issued, pc, op, input, made, token, payload, status, result, cause>>

\* python generate_token.py customer_id [--name N] [--secret S]; the clock is read
\* for iat and again for exp and may have advanced by d seconds in between
GenerateJwt ==
    /\ pc = "idle"
    /\ \E customer_id \in CustomerIds, customer_name \in CustomerNames,
          secret \in Secrets, d \in 0..MaxTick :
          /\ now + d <= MaxClock
          /\ issued' = Issued(customer_id, customer_name, secret,
                              generate_jwt(customer_id, customer_name, secret, now, now + d))
          /\ now' = now + d
    /\ UNCHANGED <<jwt_secret, pc, op, input, made, token, payload, status, result, cause>>

Decoded(in, dec) ==
    /\ made' = in
    /\ input' = in.text
    /\ token' = in.text
    /\ payload' = dec.payload
    /\ status' = dec.status

Handled(in, r) ==
    /\ made' = in
    /\ input' = in.text
    /\ token' = r.token
    /\ payload' = r.payload
    /\ status' = r.status
    /\ result' = r.result
    /\ cause' = r.cause

\* decode_jwt(token) called on its own
DecodeJwt ==
    /\ pc = "idle"
    /\ \E in \in DecodeInputs : Decoded(in, decode_jwt(in.text, jwt_secret))
    /\ op' = "decode_jwt"
    /\ pc' = "done"
    /\ UNCHANGED <<now, jwt_secret, issued, result, cause>>

\* API Gateway invokes the authorizer with one of the authorization headers
Invoke(headers) ==
    /\ pc = "idle"
    /\ \E in \in headers : Handled(in, lambda_handler(in.text, jwt_secret))
    /\ op' = "lambda_handler"
    /\ pc' = "done"
    /\ UNCHANGED <<now, jwt_secret, issued>>

\* a request that carries the issued token
LambdaHandler == Invoke(IssuedHeaders)

\* a request with any other header
LambdaHandlerCrafted == Invoke(CraftedHeaders)

\* the call is over; nothing of it is kept (every call is request-scoped)
Return ==
    /\ pc = "done"
    /\ pc' = "idle"
    /\ op' = "none"
    /\ made' = NotBuilt
    /\ input' = <<>>
    /\ token' = <<>>
    /\ payload' = JNone
    /\ status' = "none"
    /\ result' = NotReturned
    /\ cause' = "none"
    /\ UNCHANGED <<now, jwt_secret, issued>>

\* issuing tokens and presenting them
Next == Tick \/ GenerateJwt \/ DecodeJwt \/ LambdaHandler \/ Return

Spec == Init /\ [][Next]_vars

\* the authorizer alone, under arbitrary requests
NextAuthorizer == Tick \/ LambdaHandlerCrafted \/ Return

SpecAuthorizer == Init /\ [][NextAuthorizer]_vars


---------------------------------------------------------------------------
(* Properties of issuing and decoding, checked under Spec *)

DecodeDone  == pc = "done" /\ op = "decode_jwt"
HandlerDone == pc = "done" /\ op = "lambda_handler"

\* the token decode_jwt was given is one generate_jwt issued under the decoder's
\* own non-empty secret, for a non-empty customer id
IssuedForDecoder ==
    /\ issued.called
    /\ issued.customer_id # <<>>
    /\ issued.secret # <<>>
    /\ issued.secret = jwt_secret

\* C1: decoding, with the secret k, the token generate_jwt issued for a claim set
\* with a customer id and the non-empty secret k returns that claim set and the
\* signature check reports Valid.
C1_RoundTrip ==
    (DecodeDone /\ made.kind = "issued" /\ IssuedForDecoder)
        => (payload = issued.claims /\ status = "Valid")

\* one character of the signature segment of a token was replaced by another,
\* the token being valid before: issued under the decoder's secret, or carrying
\* the signature the decoder computes
TamperedValid ==
    /\ DecodeDone
    /\ made.text # made.base
    /\ \/ made.kind = "tampered" /\ IssuedForDecoder
       \/ made.kind = "tampered_resigned"

\* C2 as stated: replacing one byte of the signature segment of a valid token by
\* any different byte yields SignatureMismatch.
C2_AnyByteMismatch == TamperedValid => status = "SignatureMismatch"

\* C2 as amended: replacing one character of the signature segment by a different
\* ASCII character other than '.' yields SignatureMismatch, and the claims are
\* still returned.
C2_AsciiByteMismatch ==
    (TamperedValid /\ made.byte < 128 /\ made.byte # DOT)
        => (status = "SignatureMismatch" /\ payload = issued.claims)

\* a token the decoder finds Valid had a signature character replaced by 'A'
C2_Witness ==
    /\ TamperedValid
    /\ made.kind = "tampered_resigned"
    /\ made.byte = 65
    /\ status = "SignatureMismatch"

\* C8: for every letter case p of 'Bearer ', the header p + t is processed as the
\* bare token t, and only the leading prefix is removed: the word inside the
\* credential is left intact.
C8_BearerPrefix ==
    HandlerDone =>
        /\ made.kind = "scheme" => token = made.base
        /\ made.kind = "embedded" => token = made.text

C10_Lifetime ==
    issued.called =>
        Get(issued.claims, K_exp).n = Get(issued.claims, K_iat).n + EXPIRY

---------------------------------------------------------------------------
(* Properties of the authorizer, checked under SpecAuthorizer *)

\* the number of '.' separators in a string
Dots(s) == Cardinality({i \in 1..Len(s) : s[i] = DOT})

\* the bytes the payload segment of a token of three segments stands for
PayloadBytes(tok) ==
    urlsafe_b64decode(Segment(tok, 2) \o Repeat(PAD, 4 - (Len(Segment(tok, 2)) % 4)))

\* the JSON value those bytes spell
PayloadJson(tok) == json_loads(PayloadBytes(tok).bytes)

\* the claims a token carries, whatever its header and its signature are, if it
\* is well-formed: three segments, a payload segment that is the base64url of
\* JSON, and a signature segment that can be compared
Carried(tok) ==
    IF Dots(tok) # 2 THEN [ok |-> FALSE, val |-> JNone]
    ELSE IF ~IsAscii(Segment(tok, 3)) THEN [ok |-> FALSE, val |-> JNone]
    ELSE IF ~PayloadBytes(tok).ok THEN [ok |-> FALSE, val |-> JNone]
    ELSE [ok |-> PayloadJson(tok).ok, val |-> PayloadJson(tok).val]

\* the first non-empty value among customer_id, tenant_id and sub, or None
FirstNonEmpty(c) ==
    IF c.t # "dict" THEN JNone
    ELSE IF Truthy(Get(c, K_customer_id)) THEN Get(c, K_customer_id)
    ELSE IF Truthy(Get(c, K_tenant_id)) THEN Get(c, K_tenant_id)
    ELSE IF Truthy(Get(c, K_sub)) THEN Get(c, K_sub)
    ELSE JNone

\* the context an authorized decision carries for the claims c
ContextOf(c) ==
    [customerId   |-> FirstNonEmpty(c),
     customerName |-> IF Truthy(Get(c, K_customer_name)) THEN Get(c, K_customer_name)
                      ELSE IF Truthy(Get(c, K_name)) THEN Get(c, K_name)
                      ELSE FirstNonEmpty(c),
     tokenPayload |-> json_dumps(c.d)]

Denied == [isAuthorized |-> FALSE]

\* C3: the authorizer answers authorized exactly when the token is well-formed
\* and a customer id is resolvable from its claims, and the context is made of
\* the claims alone: neither the outcome of the signature comparison nor exp
\* enters the decision.
C3_PolicyGate ==
    HandlerDone =>
        /\ result.isAuthorized
              <=> (Carried(token).ok /\ Truthy(FirstNonEmpty(Carried(token).val)))
        /\ result.isAuthorized
              => result = [isAuthorized |-> TRUE, context |-> ContextOf(Carried(token).val)]

\* authorized although the signature does not match and exp lies in the past
C3_Witness ==
    /\ HandlerDone
    /\ result.isAuthorized
    /\ status = "SignatureMismatch"
    /\ Get(payload, K_exp).t = "int"
    /\ Get(payload, K_exp).n < now

\* C4: a token that does not hold exactly two '.', or whose payload segment is
\* not decodable base64url or not JSON, makes decode_jwt return nothing, and
\* lambda_handler returns the denial from its "no payload" branch, not from an
\* exception.
C4_MalformedDenied ==
    (HandlerDone /\ token # <<>>
       /\ (Dots(token) # 2 \/ ~PayloadBytes(token).ok \/ ~PayloadJson(token).ok))
        => /\ status = "MalformedToken"
           /\ payload = JNone
           /\ cause = "decode_failed"
           /\ result = Denied

\* three segments, a payload segment that decodes, but to no JSON
C4_Witness ==
    /\ HandlerDone
    /\ Dots(token) = 2
    /\ PayloadBytes(token).ok
    /\ ~PayloadJson(token).ok
    /\ status = "MalformedToken"
    /\ result = Denied

\* the token splits into exactly three segments and the segments ks of them
\* are not empty
ThreeSegments(tok, ks) ==
    Dots(tok) = 2 /\ \A k \in ks : Segment(tok, k) # <<>>

\* C5 as stated: decode_jwt returns nothing unless the token splits into exactly
\* three segments that are all non-empty.
C5_AllSegmentsNonEmpty ==
    (HandlerDone /\ token # <<>> /\ ~ThreeSegments(token, {1, 2, 3}))
        => (status = "MalformedToken" /\ payload = JNone)

\* C5 as amended: decode_jwt returns nothing unless the token splits into
\* exactly three segments of which the payload segment is not empty; an empty
\* header or signature segment is accepted, '.<payload>.' with a JSON payload
\* being decoded to that payload.
C5_ThreeSegments ==
    HandlerDone =>
        /\ (token # <<>> /\ ~ThreeSegments(token, {2}))
              => (status = "MalformedToken" /\ payload = JNone)
        /\ (ThreeSegments(token, {2}) /\ Segment(token, 1) = <<>>
               /\ Segment(token, 3) = <<>> /\ Carried(token).ok)
              => (status = "SignatureMismatch" /\ payload = Carried(token).val)

\* '.<payload>.' was decoded, and authorized
C5_Witness ==
    /\ HandlerDone
    /\ ThreeSegments(token, {2})
    /\ Segment(token, 1) = <<>>
    /\ Segment(token, 3) = <<>>
    /\ status = "SignatureMismatch"
    /\ result.isAuthorized

\* C6: the customerId of the context is the first non-empty value among
\* customer_id, tenant_id and sub of the decoded claims, in that order; when none
\* of the three is non-empty the decision is the denial.
C6_Precedence ==
    (HandlerDone /\ status \in {"Valid", "SignatureMismatch"} /\ payload.t = "dict")
        => IF Truthy(FirstNonEmpty(payload))
           THEN result.isAuthorized /\ result.context.customerId = FirstNonEmpty(payload)
           ELSE result = Denied

\* {tenant_id: x, sub: y} resolved to x
C6_Witness ==
    /\ HandlerDone
    /\ Get(payload, K_customer_id) = JNone
    /\ Get(payload, K_tenant_id) = JStr(<<120>>)
    /\ Get(payload, K_sub) = JStr(<<121>>)
    /\ result.isAuthorized
    /\ result.context.customerId = JStr(<<120>>)

\* C7: a decision that is not authorized is the one value {isAuthorized: false},
\* without context, whichever check failed.
C7_DenialIsUniform ==
    (HandlerDone /\ ~result.isAuthorized)
        => (result = Denied /\ DOMAIN result = {"isAuthorized"})

\* the denial that follows an exception inside the handler
C7_Witness ==
    /\ HandlerDone
    /\ cause = "exception"
    /\ result = Denied

============================================================================
